---- MODULE Spec2Model ----
(***************************************************************************)
(* Booking admission control of the Meshwar admin dashboard:               *)
(* bookingService (createBooking, updateBooking, deleteBooking,            *)
(* changeBookingStatus) and activityService (createActivity,               *)
(* updateActivity, deleteActivity, toggleActivityStatus) against the       *)
(* "activities" and "bookings" collections of the document store.  Every   *)
(* await of a service call is a separate step, so calls of different       *)
(* callers interleave at the store requests.                               *)
(***************************************************************************)
EXTENDS Integers, FiniteSets, Sequences, TLC

\* ---------------------------------------------------------------- bounds
MaxCalls == 4               \* service calls ever started
MaxLimit == 1               \* largest participantLimit entered in the form
MaxLogins == 2              \* login() calls ever started
MaxTime == 4                \* minutes the clock runs for
MaxFetchCalls == 3          \* getDashboardData calls ever started
MaxSelects == 3             \* changes of the dashboard's time period

\* TTLs of the dashboard cache, in minutes
DEFAULT_TTL == 5            \* 5 * 60 * 1000 ms
DashboardTTL == 2           \* 2 * 60 * 1000 ms

Procs == {1, 2}             \* independent callers (admin sessions)
Users == {"u1", "u2"}
Statuses == {"confirmed", "pending", "cancelled"}

\* document ids: every document is created by a call
ActivityIds == 1..MaxCalls
BookingIds == 1..MaxCalls

\* a document that does not exist in its collection
NoActivity == [exists |-> FALSE, participantLimit |-> 0, currentParticipants |-> 0]
NoBooking == [exists |-> FALSE, userId |-> "", activityId |-> 0, status |-> ""]
NoArgs == [userId |-> "", activityId |-> 0, status |-> "", id |-> 0]

VARIABLES
    activities,     \* "activities" collection: id -> document
    numActivities,  \* ids handed out by addDoc(activitiesCollection, ..)
    bookings,       \* "bookings" collection: id -> document
    numBookings,    \* ids handed out by doc(collection(db, "bookings"))
    pc,             \* per caller: the await its service call is suspended at
    args,           \* per caller: arguments and locals of the running call
    result,         \* operation and outcome of the call that finished last
    created,        \* per activity: createBooking calls that succeeded
    deleted,        \* per activity: deleteBooking calls that succeeded
    calls,          \* service calls started so far
    \* AuthProvider (MainLayout.tsx)
    authUser,       \* the auth service's signed-in user: "none" or "user"
    userDoc,        \* role stored in users/{uid}: "none" when there is no document
    localRole,      \* localStorage "userRole": "none" when absent
    currentUser,    \* React state currentUser: "none" for null
    userData,       \* React state userData, by its role: "none" for null
    loading,        \* React state loading
    loginPc,        \* the await login() is suspended at, or how it ended
    authEvents,     \* auth state changes not yet delivered to the listener
    listenerGet,    \* listener callbacks suspended at getDoc
    listenerSet,    \* listener callbacks suspended at setDoc
    logins,         \* login() calls started so far
    \* RouteGuard (RouteGuard.tsx)
    pathname,       \* usePathname(): the path shown, as its characters
    redirects,      \* the router.push calls of the last run of the effect
    \* DashboardCache and dashboardService.getDashboardData (categoryService.ts)
    now,            \* Date.now(), in minutes
    cache,          \* the Map of the cache: period of the key -> entry
    inflight,       \* per period: getDashboardData calls awaiting their queries
    served,         \* what the getDashboardData call that returned last returned
    fetchCalls,     \* getDashboardData calls started so far
    \* DashboardPage (app/dashboard/page.tsx)
    timePeriod,     \* React state timePeriod
    stats,          \* React state stats, by the period it was fetched for
    timeSeriesData, \* React state timeSeriesData, by the period it was fetched for
    fetching,       \* per period: fetchDashboardData runs awaiting their queries
    queryFailed,    \* whether a query of some run has failed
    selects         \* changes of the time period so far

service == <<activities, numActivities, bookings, numBookings, pc, args, result,
             created, deleted, calls>>

authVars == <<authUser, userDoc, localRole, currentUser, userData, loading,
              loginPc, authEvents, listenerGet, listenerSet, logins>>

routeVars == <<pathname, redirects>>

cacheVars == <<now, cache, inflight, served, fetchCalls>>

pageVars == <<timePeriod, stats, timeSeriesData, fetching, queryFailed, selects>>

\* the state of the browser application
client == <<authVars, routeVars, cacheVars, pageVars>>

\* what the AuthProvider, the RouteGuard, the dashboard cache and the
\* dashboard page leave alone
nonAuth == <<service, routeVars, cacheVars, pageVars>>
nonRoute == <<service, authVars, cacheVars, pageVars>>
nonCache == <<service, authVars, routeVars, pageVars>>
nonPage == <<service, authVars, routeVars, cacheVars>>

vars == <<service, client>>

store == <<activities, numActivities, bookings, numBookings>>

\* ------------------------------------------------------------- helpers
\* `x || 0` on a stored number
OrZero(x) == IF x = 0 THEN 0 ELSE x

\* the query with the status filter narrowed to "confirmed"
existingBookingQueryConfirmedOnly(u, a) ==
    {b \in BookingIds : /\ bookings[b].exists
                        /\ bookings[b].userId = u
                        /\ bookings[b].activityId = a
                        /\ bookings[b].status \in {"confirmed"}}

\* the query without the status filter
existingBookingQueryAnyStatus(u, a) ==
    {b \in BookingIds : /\ bookings[b].exists
                        /\ bookings[b].userId = u
                        /\ bookings[b].activityId = a}

\* where("userId","==",u), where("activityId","==",a),
\* where("status","in",["confirmed","pending"])
existingBookingQuery(u, a) ==
    {b \in BookingIds : /\ bookings[b].exists
                        /\ bookings[b].userId = u
                        /\ bookings[b].activityId = a
                        /\ bookings[b].status \in {"confirmed", "pending"}}

\* the capacity check without the participantLimit > 0 guard
LimitReachedNoUnlimited(doc) ==
    OrZero(doc.currentParticipants) >= OrZero(doc.participantLimit)

\* the capacity check with > in place of >=
LimitReachedStrict(doc) ==
    /\ OrZero(doc.participantLimit) > 0
    /\ OrZero(doc.currentParticipants) > OrZero(doc.participantLimit)

\* participantLimit > 0 && currentParticipants >= participantLimit
LimitReached(doc) ==
    /\ OrZero(doc.participantLimit) > 0
    /\ OrZero(doc.currentParticipants) >= OrZero(doc.participantLimit)

\* callers are interchangeable: a new call is taken by the first idle caller
Idle(p) ==
    /\ pc[p] = "idle"
    /\ \A q \in Procs : pc[q] = "idle" => ~(q < p)

\* a service call is invoked
Invoke ==
    /\ calls < MaxCalls
    /\ calls' = calls + 1

Finish(p, o, outcome) ==
    /\ pc' = [pc EXCEPT ![p] = "idle"]
    /\ args' = [args EXCEPT ![p] = NoArgs]
    /\ result' = [op |-> o, outcome |-> outcome]

\* AuthProvider as mounted: nobody signed in, the listener is about to be
\* called with the signed-out state; role is what users/{uid} holds
AuthInit(role) ==
    /\ authUser = "none"
    /\ userDoc = role
    /\ localRole = "none"
    /\ currentUser = "none"
    /\ userData = "none"
    /\ loading = TRUE
    /\ loginPc = "idle"
    /\ authEvents = <<"none">>
    /\ listenerGet = 0
    /\ listenerSet = 0
    /\ logins = 0

\* the paths of the application, as sequences of characters
LoginPath == <<"/", "l", "o", "g", "i", "n">>
SignupPath == <<"/", "s", "i", "g", "n", "u", "p">>
ForgotPasswordPath ==
    <<"/", "f", "o", "r", "g", "o", "t", "-", "p", "a", "s", "s", "w", "o", "r", "d">>
DashboardPath == <<"/", "d", "a", "s", "h", "b", "o", "a", "r", "d">>
ActivitiesPath == <<"/", "a", "c", "t", "i", "v", "i", "t", "i", "e", "s">>
AdminPrefix == <<"/", "a", "d", "m", "i", "n">>
AdminUsersPath == AdminPrefix \o <<"/", "u", "s", "e", "r", "s">>

\* the RouteGuard as mounted on a path, its effect not yet run
RouteInit(path) ==
    /\ pathname = path
    /\ redirects = <<>>

\* the periods getDashboardData is called with
Periods == {"week", "month"}

\* no entry under a key of the cache
NoEntry == [present |-> FALSE, timestamp |-> 0, ttl |-> 0]

\* new DashboardCache(): an empty Map; no call made yet
CacheInit ==
    /\ now = 0
    /\ cache = [k \in Periods |-> NoEntry]
    /\ inflight = [k \in Periods |-> 0]
    /\ served = [period |-> "none", source |-> "none", stamp |-> 0]
    /\ fetchCalls = 0

\* DashboardPage after its first render: period 'month', nothing shown yet,
\* and the effect has started fetchDashboardData for 'month'
PageInit ==
    /\ timePeriod = "month"
    /\ stats = "none"
    /\ timeSeriesData = "none"
    /\ fetching = [k \in Periods |-> IF k = "month" THEN 1 ELSE 0]
    /\ queryFailed = FALSE
    /\ selects = 0

ClientInit ==
    /\ AuthInit("none")
    /\ RouteInit(LoginPath)
    /\ CacheInit
    /\ PageInit

\* empty collections, no call running
ServiceInit ==
    /\ activities = [a \in ActivityIds |-> NoActivity]
    /\ numActivities = 0
    /\ bookings = [b \in BookingIds |-> NoBooking]
    /\ numBookings = 0
    /\ pc = [p \in Procs |-> "idle"]
    /\ args = [p \in Procs |-> NoArgs]
    /\ result = [op |-> "none", outcome |-> "none"]
    /\ created = [a \in ActivityIds |-> 0]
    /\ deleted = [a \in ActivityIds |-> 0]
    /\ calls = 0

Init ==
    /\ ServiceInit
    /\ ClientInit

\* ------------------------------------------------------ activityService
\* createActivity: addDoc with currentParticipants: 0
createActivity(limit) ==
    /\ Invoke
    /\ numActivities' = numActivities + 1
    /\ activities' = [activities EXCEPT ![numActivities + 1] =
                        [exists |-> TRUE, participantLimit |-> limit,
                         currentParticipants |-> 0]]
    /\ UNCHANGED <<bookings, numBookings, pc, args, result, created, deleted>>
    /\ UNCHANGED client

\* deleteActivity also deleting the bookings of the activity
deleteActivityCascading(a) ==
    /\ activities[a].exists
    /\ Invoke
    /\ activities' = [activities EXCEPT ![a] = NoActivity]
    /\ bookings' = [b \in BookingIds |->
                      IF bookings[b].exists /\ bookings[b].activityId = a
                        THEN NoBooking ELSE bookings[b]]
    /\ UNCHANGED <<numActivities, numBookings, pc, args, result, created, deleted>>
    /\ UNCHANGED client

\* deleteActivity: deleteDoc of the activity document only
deleteActivity(a) ==
    /\ activities[a].exists
    /\ Invoke
    /\ activities' = [activities EXCEPT ![a] = NoActivity]
    /\ UNCHANGED <<numActivities, bookings, numBookings, pc, args, result,
                   created, deleted>>
    /\ UNCHANGED client

\* updateDoc(docRef, data) on the fields of the stored document that the
\* model keeps: a field named in data is overwritten, the others are kept
UpdateFields(doc, data) ==
    [f \in DOMAIN doc |-> IF f \in DOMAIN data THEN data[f] ELSE doc[f]]

\* updateActivity also writing the participant counter back as 0
updateActivityResettingCounter(a, data) ==
    /\ activities[a].exists
    /\ activities' = [activities EXCEPT ![a] =
          UpdateFields(@, [f \in DOMAIN data \cup {"currentParticipants"} |->
                             IF f = "currentParticipants" THEN 0 ELSE data[f]])]
    /\ Invoke
    /\ UNCHANGED <<numActivities, bookings, numBookings, pc, args, result,
                   created, deleted>>
    /\ UNCHANGED client

\* updateActivity: updateDoc(docRef, {...data, updatedAt}); fails on a
\* missing document
updateActivity(a, data) ==
    /\ activities[a].exists
    /\ activities' = [activities EXCEPT ![a] = UpdateFields(@, data)]
    /\ Invoke
    /\ UNCHANGED <<numActivities, bookings, numBookings, pc, args, result,
                   created, deleted>>
    /\ UNCHANGED client

\* the data updateActivity is called with: the expiry update of
\* getActivities and getActivityById
ActivityData == {[isExpired |-> TRUE]}

\* toggleActivityStatus: updateDoc(docRef, {isActive, updatedAt}); fails on
\* a missing document
toggleActivityStatus(a, isActive) ==
    /\ activities[a].exists
    /\ activities' = [activities EXCEPT ![a] =
                        UpdateFields(@, [isActive |-> isActive])]
    /\ Invoke
    /\ UNCHANGED <<numActivities, bookings, numBookings, pc, args, result,
                   created, deleted>>
    /\ UNCHANGED client

\* ------------------------------------------------------- bookingService
\* createBookingGet without the activitySnap.exists() check
createBookingGetNoExistsCheck(p, u, a, s) ==
    /\ Idle(p)
    /\ Invoke
    /\ IF LimitReached(activities[a])
         THEN Finish(p, "createBooking", "CapacityExceeded")
         ELSE /\ pc' = [pc EXCEPT ![p] = "cb_query"]
              /\ args' = [args EXCEPT ![p] =
                           [userId |-> u, activityId |-> a, status |-> s, id |-> 0]]
              /\ UNCHANGED result
    /\ UNCHANGED <<store, created, deleted>>
    /\ UNCHANGED client

\* createBookingGet without the capacity check
createBookingGetNoCapacityCheck(p, u, a, s) ==
    /\ Idle(p)
    /\ Invoke
    /\ IF ~activities[a].exists
         THEN Finish(p, "createBooking", "NotFound")
         ELSE /\ pc' = [pc EXCEPT ![p] = "cb_query"]
              /\ args' = [args EXCEPT ![p] =
                           [userId |-> u, activityId |-> a, status |-> s, id |-> 0]]
              /\ UNCHANGED result
    /\ UNCHANGED <<store, created, deleted>>
    /\ UNCHANGED client

\* createBookingGet with the capacity check counting the confirmed and pending
\* bookings of the activity instead of reading currentParticipants
createBookingGetCountsActive(p, u, a, s) ==
    /\ Idle(p)
    /\ Invoke
    /\ IF ~activities[a].exists
         THEN Finish(p, "createBooking", "NotFound")
         ELSE IF /\ activities[a].participantLimit > 0
                 /\ Cardinality({b \in BookingIds :
                        /\ bookings[b].exists
                        /\ bookings[b].activityId = a
                        /\ bookings[b].status \in {"confirmed", "pending"}})
                      >= activities[a].participantLimit
           THEN Finish(p, "createBooking", "CapacityExceeded")
           ELSE /\ pc' = [pc EXCEPT ![p] = "cb_query"]
                /\ args' = [args EXCEPT ![p] =
                             [userId |-> u, activityId |-> a, status |-> s, id |-> 0]]
                /\ UNCHANGED result
    /\ UNCHANGED <<store, created, deleted>>
    /\ UNCHANGED client

\* createBookingGet running the duplicate query before the capacity check
createBookingGetDuplicateFirst(p, u, a, s) ==
    /\ Idle(p)
    /\ Invoke
    /\ IF ~activities[a].exists
         THEN Finish(p, "createBooking", "NotFound")
         ELSE IF existingBookingQuery(u, a) # {}
           THEN Finish(p, "createBooking", "DuplicateBooking")
           ELSE IF LimitReached(activities[a])
             THEN Finish(p, "createBooking", "CapacityExceeded")
             ELSE /\ pc' = [pc EXCEPT ![p] = "cb_query"]
                  /\ args' = [args EXCEPT ![p] =
                               [userId |-> u, activityId |-> a, status |-> s, id |-> 0]]
                  /\ UNCHANGED result
    /\ UNCHANGED <<store, created, deleted>>
    /\ UNCHANGED client

\* createBooking up to the first await and its continuation:
\* getDoc(activityRef), the existence check and the capacity check
createBookingGet(p, u, a, s) ==
    /\ Idle(p)
    /\ Invoke
    /\ IF ~activities[a].exists
         THEN Finish(p, "createBooking", "NotFound")
         ELSE IF LimitReached(activities[a])
           THEN Finish(p, "createBooking", "CapacityExceeded")
           ELSE /\ pc' = [pc EXCEPT ![p] = "cb_query"]
                /\ args' = [args EXCEPT ![p] =
                             [userId |-> u, activityId |-> a, status |-> s, id |-> 0]]
                /\ UNCHANGED result
    /\ UNCHANGED <<store, created, deleted>>
    /\ UNCHANGED client

\* createBookingQuery running the query again when it finds a duplicate
createBookingQueryAgain(p) ==
    /\ pc[p] = "cb_query"
    /\ IF existingBookingQuery(args[p].userId, args[p].activityId) # {}
         THEN UNCHANGED <<pc, args, result>>
         ELSE /\ pc' = [pc EXCEPT ![p] = "cb_tx"]
              /\ UNCHANGED <<args, result>>
    /\ UNCHANGED <<store, created, deleted, calls>>
    /\ UNCHANGED client

\* getDocs(existingBookingQuery) and the duplicate check
createBookingQuery(p) ==
    /\ pc[p] = "cb_query"
    /\ IF existingBookingQuery(args[p].userId, args[p].activityId) # {}
         THEN Finish(p, "createBooking", "DuplicateBooking")
         ELSE /\ pc' = [pc EXCEPT ![p] = "cb_tx"]
              /\ UNCHANGED <<args, result>>
    /\ UNCHANGED <<store, created, deleted, calls>>
    /\ UNCHANGED client

\* the two writes of createBooking issued one after the other instead of in a
\* transaction: the booking is written, then the increment fails
createBookingCommitNonAtomic(p, fault) ==
    /\ pc[p] = "cb_tx"
    /\ LET a == args[p].activityId
           id == numBookings + 1
       IN /\ bookings' = [bookings EXCEPT ![id] =
                            [exists |-> TRUE, userId |-> args[p].userId,
                             activityId |-> a, status |-> args[p].status]]
          /\ numBookings' = id
          /\ IF fault \/ ~activities[a].exists
               THEN /\ Finish(p, "createBooking", "StoreError")
                    /\ UNCHANGED <<activities, numActivities, created, deleted, calls>>
               ELSE /\ activities' = [activities EXCEPT ![a].currentParticipants = @ + 1]
                    /\ created' = [created EXCEPT ![a] = @ + 1]
                    /\ Finish(p, "createBooking", "ok")
                    /\ UNCHANGED <<numActivities, deleted, calls>>
    /\ UNCHANGED client

\* the createBooking transaction leaving the counter alone for a booking
\* created with status cancelled
createBookingCommitSkippingCancelled(p, fault) ==
    /\ pc[p] = "cb_tx"
    /\ LET a == args[p].activityId
           id == numBookings + 1
       IN IF fault \/ ~activities[a].exists
            THEN /\ Finish(p, "createBooking", "StoreError")
                 /\ UNCHANGED <<store, created, deleted, calls>>
            ELSE /\ bookings' = [bookings EXCEPT ![id] =
                                   [exists |-> TRUE, userId |-> args[p].userId,
                                    activityId |-> a, status |-> args[p].status]]
                 /\ numBookings' = id
                 /\ activities' = IF args[p].status = "cancelled"
                                    THEN activities
                                    ELSE [activities EXCEPT
                                            ![a].currentParticipants = @ + 1]
                 /\ created' = [created EXCEPT ![a] = @ + 1]
                 /\ Finish(p, "createBooking", "ok")
                 /\ UNCHANGED <<numActivities, deleted, calls>>
    /\ UNCHANGED client

\* commit of the createBooking transaction: set(bookingRef) and
\* update(activityRef, increment(1)); update requires the document to exist,
\* and a failed commit (fault) applies no write
createBookingCommit(p, fault) ==
    /\ pc[p] = "cb_tx"
    /\ LET a == args[p].activityId
           id == numBookings + 1
       IN IF fault \/ ~activities[a].exists
            THEN /\ Finish(p, "createBooking", "StoreError")
                 /\ UNCHANGED <<store, created, deleted, calls>>
            ELSE /\ bookings' = [bookings EXCEPT ![id] =
                                   [exists |-> TRUE, userId |-> args[p].userId,
                                    activityId |-> a, status |-> args[p].status]]
                 /\ numBookings' = id
                 /\ activities' = [activities EXCEPT ![a].currentParticipants = @ + 1]
                 /\ created' = [created EXCEPT ![a] = @ + 1]
                 /\ Finish(p, "createBooking", "ok")
                 /\ UNCHANGED <<numActivities, deleted, calls>>
    /\ UNCHANGED client

\* updateBooking: updateDoc(docRef, {...data}); fails on a missing document.
\* data is a partial booking: "" / 0 stand for an absent field
updateBooking(id, data) ==
    /\ bookings[id].exists
    /\ bookings' = [bookings EXCEPT ![id] =
          [exists |-> TRUE,
           userId |-> IF data.userId = "" THEN @.userId ELSE data.userId,
           activityId |-> IF data.activityId = 0 THEN @.activityId ELSE data.activityId,
           status |-> IF data.status = "" THEN @.status ELSE data.status]]
    /\ Invoke
    /\ UNCHANGED <<activities, numActivities, numBookings, pc, args, result,
                   created, deleted>>
    /\ UNCHANGED client

\* deleteBookingGet treating a missing booking as already deleted
deleteBookingGetMissingOk(p, id) ==
    /\ Idle(p)
    /\ Invoke
    /\ IF ~bookings[id].exists
         THEN Finish(p, "deleteBooking", "ok")
         ELSE /\ pc' = [pc EXCEPT ![p] = "db_tx"]
              /\ args' = [args EXCEPT ![p] =
                           [userId |-> "", activityId |-> bookings[id].activityId,
                            status |-> "", id |-> id]]
              /\ UNCHANGED result
    /\ UNCHANGED <<store, created, deleted>>
    /\ UNCHANGED client

\* deleteBooking up to the first await and its continuation:
\* getDoc(bookingRef) and the existence check
deleteBookingGet(p, id) ==
    /\ Idle(p)
    /\ Invoke
    /\ IF ~bookings[id].exists
         THEN Finish(p, "deleteBooking", "NotFound")
         ELSE /\ pc' = [pc EXCEPT ![p] = "db_tx"]
              /\ args' = [args EXCEPT ![p] =
                           [userId |-> "", activityId |-> bookings[id].activityId,
                            status |-> "", id |-> id]]
              /\ UNCHANGED result
    /\ UNCHANGED <<store, created, deleted>>
    /\ UNCHANGED client

\* the two writes of deleteBooking issued one after the other instead of in a
\* transaction: the booking is deleted, then the decrement fails
deleteBookingCommitNonAtomic(p, fault) ==
    /\ pc[p] = "db_tx"
    /\ LET a == args[p].activityId
           id == args[p].id
       IN /\ bookings' = [bookings EXCEPT ![id] = NoBooking]
          /\ IF fault \/ ~activities[a].exists
               THEN /\ Finish(p, "deleteBooking", "StoreError")
                    /\ UNCHANGED <<activities, numActivities, numBookings,
                                   created, deleted, calls>>
               ELSE /\ activities' = [activities EXCEPT ![a].currentParticipants = @ - 1]
                    /\ deleted' = [deleted EXCEPT ![a] = @ + 1]
                    /\ Finish(p, "deleteBooking", "ok")
                    /\ UNCHANGED <<numActivities, numBookings, created, calls>>
    /\ UNCHANGED client

\* commit of the deleteBooking transaction: delete(bookingRef), which has no
\* precondition, and update(activityRef, increment(-1)), which requires the
\* activity document to exist; a failed commit applies no write
deleteBookingCommit(p, fault) ==
    /\ pc[p] = "db_tx"
    /\ LET a == args[p].activityId
           id == args[p].id
       IN IF fault \/ ~activities[a].exists
            THEN /\ Finish(p, "deleteBooking", "StoreError")
                 /\ UNCHANGED <<store, created, deleted, calls>>
            ELSE /\ bookings' = [bookings EXCEPT ![id] = NoBooking]
                 /\ activities' = [activities EXCEPT ![a].currentParticipants = @ - 1]
                 /\ deleted' = [deleted EXCEPT ![a] = @ + 1]
                 /\ Finish(p, "deleteBooking", "ok")
                 /\ UNCHANGED <<numActivities, numBookings, created, calls>>
    /\ UNCHANGED client

\* changeBookingStatus releasing the slot when a booking is cancelled
changeBookingStatusAdjusting(id, status) ==
    /\ bookings[id].exists
    /\ bookings' = [bookings EXCEPT ![id].status = status]
    /\ activities' =
          IF status = "cancelled" /\ bookings[id].status # "cancelled"
               /\ bookings[id].activityId \in ActivityIds
            THEN [activities EXCEPT ![bookings[id].activityId].currentParticipants = @ - 1]
            ELSE activities
    /\ Invoke
    /\ UNCHANGED <<numActivities, numBookings, pc, args, result, created, deleted>>
    /\ UNCHANGED client

\* changeBookingStatus: updateDoc(docRef, {status}); fails on a missing document
changeBookingStatus(id, status) ==
    /\ bookings[id].exists
    /\ bookings' = [bookings EXCEPT ![id].status = status]
    /\ Invoke
    /\ UNCHANGED <<activities, numActivities, numBookings, pc, args, result,
                   created, deleted>>
    /\ UNCHANGED client

\* the partial bookings updateBooking is called with: one field present
BookingData ==
    {[userId |-> u, activityId |-> 0, status |-> ""] : u \in Users} \cup
    {[userId |-> "", activityId |-> a, status |-> ""] :
        a \in {x \in ActivityIds : x <= numActivities}} \cup
    {[userId |-> "", activityId |-> 0, status |-> s] : s \in Statuses}

\* ids a caller passes in: those of the documents created so far and one id
\* that no document has
ActivityInputs == {a \in ActivityIds : a <= numActivities + 1}
BookingInputs == {b \in BookingIds : b <= numBookings + 1}

Next ==
    \/ \E limit \in 0..MaxLimit : createActivity(limit)
    \/ \E a \in ActivityIds : deleteActivity(a)
    \/ \E a \in ActivityIds, data \in ActivityData : updateActivity(a, data)
    \/ \E a \in ActivityIds, isActive \in BOOLEAN : toggleActivityStatus(a, isActive)
    \/ \E p \in Procs, u \in Users, a \in ActivityInputs, s \in Statuses :
          createBookingGet(p, u, a, s)
    \/ \E p \in Procs : createBookingQuery(p)
    \/ \E p \in Procs, fault \in BOOLEAN : createBookingCommit(p, fault)
    \/ \E id \in BookingIds, data \in BookingData : updateBooking(id, data)
    \/ \E p \in Procs, id \in BookingInputs : deleteBookingGet(p, id)
    \/ \E p \in Procs, fault \in BOOLEAN : deleteBookingCommit(p, fault)
    \/ \E id \in BookingIds, status \in Statuses : changeBookingStatus(id, status)

Spec == Init /\ [][Next]_vars

\* the store answers the requests of running calls: while some call is
\* awaiting its query or its transaction, one of the awaits resumes (a
\* pending await stays pending until it resumes, so none waits for ever)
StoreAnswers ==
    WF_vars(\E p \in Procs :
               \/ createBookingQuery(p)
               \/ \E fault \in BOOLEAN : createBookingCommit(p, fault)
               \/ \E fault \in BOOLEAN : deleteBookingCommit(p, fault))

SpecAnswered == Spec /\ StoreAnswers

\* --------------------------------------------------------- AuthProvider
\* roles a users/{uid} document holds; "none": no document
StoredRoles == {"none", "admin", "user"}

\* login: signInWithEmailAndPassword; the auth service signs the user in
\* and notifies the listener, or rejects the credentials
loginSignIn(accepted) ==
    /\ loginPc \in {"idle", "denied", "failed"}
    /\ logins < MaxLogins
    /\ logins' = logins + 1
    /\ IF accepted
         THEN /\ authUser' = "user"
              /\ authEvents' = Append(authEvents, "user")
              /\ loginPc' = "getdoc"
         ELSE /\ loginPc' = "failed"
              /\ UNCHANGED <<authUser, authEvents>>
    /\ UNCHANGED <<userDoc, localRole, currentUser, userData, loading,
                   listenerGet, listenerSet>>
    /\ UNCHANGED nonAuth

\* login: getDoc(userDocRef) and the role check
loginGetDoc(fault) ==
    /\ loginPc = "getdoc"
    /\ IF fault
         THEN /\ loginPc' = "failed"
              /\ UNCHANGED <<currentUser, userData, localRole>>
         ELSE IF userDoc = "none"
           THEN /\ loginPc' = "setdoc"
                /\ UNCHANGED <<currentUser, userData, localRole>>
           ELSE IF userDoc # "admin"
             THEN /\ loginPc' = "signout"
                  /\ UNCHANGED <<currentUser, userData, localRole>>
             ELSE /\ userData' = userDoc
                  /\ currentUser' = "user"
                  /\ localRole' = userDoc
                  /\ loginPc' = "done"
    /\ UNCHANGED <<authUser, userDoc, loading, authEvents, listenerGet,
                   listenerSet, logins>>
    /\ UNCHANGED nonAuth

\* login: setDoc(userDocRef, {role: "admin"}) when there was no document
loginSetDoc(fault) ==
    /\ loginPc = "setdoc"
    /\ IF fault
         THEN /\ loginPc' = "failed"
              /\ UNCHANGED <<userDoc, currentUser, userData, localRole>>
         ELSE /\ userDoc' = "admin"
              /\ userData' = "admin"
              /\ currentUser' = "user"
              /\ localRole' = "admin"
              /\ loginPc' = "done"
    /\ UNCHANGED <<authUser, loading, authEvents, listenerGet, listenerSet, logins>>
    /\ UNCHANGED nonAuth

\* login: signOut(auth) of a user who is not an admin, then the
\* access-denied error is thrown
loginSignOut ==
    /\ loginPc = "signout"
    /\ authUser' = "none"
    /\ authEvents' = Append(authEvents, "none")
    /\ loginPc' = "denied"
    /\ UNCHANGED <<userDoc, localRole, currentUser, userData, loading,
                   listenerGet, listenerSet, logins>>
    /\ UNCHANGED nonAuth

\* the listener is called with the next auth state: setLoading(true), then
\* for a user the callback suspends at getDoc, for null it runs to its end
onAuthStateChanged ==
    /\ authEvents # <<>>
    /\ authEvents' = Tail(authEvents)
    /\ IF Head(authEvents) = "user"
         THEN /\ loading' = TRUE
              /\ listenerGet' = listenerGet + 1
              /\ UNCHANGED <<userData, currentUser, localRole>>
         ELSE /\ userData' = "none"
              /\ currentUser' = "none"
              /\ localRole' = "none"
              /\ loading' = FALSE
              /\ UNCHANGED listenerGet
    /\ UNCHANGED <<authUser, userDoc, loginPc, listenerSet, logins>>
    /\ UNCHANGED nonAuth

\* the catch block of the listener: userData from localStorage, and the
\* user it was called with becomes currentUser
listenerFallback ==
    /\ userData' = IF localRole # "none" THEN localRole ELSE "user"
    /\ currentUser' = "user"
    /\ loading' = FALSE
    /\ UNCHANGED <<localRole, userDoc>>

\* a listener callback resumes after getDoc
listenerGetDoc(fault) ==
    /\ listenerGet > 0
    /\ listenerGet' = listenerGet - 1
    /\ IF fault
         THEN listenerFallback /\ UNCHANGED listenerSet
         ELSE IF userDoc # "none"
           THEN /\ userData' = userDoc
                /\ localRole' = userDoc
                /\ currentUser' = "user"
                /\ loading' = FALSE
                /\ UNCHANGED <<userDoc, listenerSet>>
           ELSE /\ listenerSet' = listenerSet + 1
                /\ UNCHANGED <<userData, localRole, currentUser, loading, userDoc>>
    /\ UNCHANGED <<authUser, loginPc, authEvents, logins>>
    /\ UNCHANGED nonAuth

\* a listener callback resumes after setDoc({role: "user"})
listenerSetDoc(fault) ==
    /\ listenerSet > 0
    /\ listenerSet' = listenerSet - 1
    /\ IF fault
         THEN listenerFallback
         ELSE /\ userDoc' = "user"
              /\ userData' = "user"
              /\ localRole' = "user"
              /\ currentUser' = "user"
              /\ loading' = FALSE
    /\ UNCHANGED <<authUser, loginPc, authEvents, listenerGet, logins>>
    /\ UNCHANGED nonAuth

InitAuth ==
    /\ ServiceInit
    /\ \E role \in StoredRoles : AuthInit(role)
    /\ RouteInit(LoginPath)
    /\ CacheInit
    /\ PageInit

NextAuth ==
    \/ \E accepted \in BOOLEAN : loginSignIn(accepted)
    \/ \E fault \in BOOLEAN : loginGetDoc(fault)
    \/ \E fault \in BOOLEAN : loginSetDoc(fault)
    \/ loginSignOut
    \/ onAuthStateChanged
    \/ \E fault \in BOOLEAN : listenerGetDoc(fault)
    \/ \E fault \in BOOLEAN : listenerSetDoc(fault)

SpecAuth == InitAuth /\ [][NextAuth]_vars

\* ----------------------------------------------------------- RouteGuard
\* the paths a visitor opens the application on
Paths ==
    {LoginPath, LoginPath \o <<"/">>, SignupPath, SignupPath \o <<"/">>,
     ForgotPasswordPath, ForgotPasswordPath \o <<"/">>,
     DashboardPath, ActivitiesPath, AdminPrefix, AdminUsersPath}

\* publicRoutes without the login page
publicRoutesWithoutLogin ==
    {SignupPath, SignupPath \o <<"/">>,
     ForgotPasswordPath, ForgotPasswordPath \o <<"/">>}

\* publicRoutes
publicRoutes ==
    {LoginPath, LoginPath \o <<"/">>, SignupPath, SignupPath \o <<"/">>,
     ForgotPasswordPath, ForgotPasswordPath \o <<"/">>}

\* pathname.startsWith(prefix)
startsWith(path, prefix) ==
    /\ Len(path) >= Len(prefix)
    /\ SubSeq(path, 1, Len(prefix)) = prefix

\* isAdmin = userData?.role === "admin"
isAdmin == userData = "admin"

\* the effect with the loading check left out
RedirectsIgnoringLoading(isLoading, user, admin, path) ==
    (IF user = "none" /\ path \notin publicRoutes
       THEN <<LoginPath>>
       ELSE IF user # "none" /\ path \in {LoginPath, LoginPath \o <<"/">>}
         THEN <<DashboardPath>>
         ELSE <<>>)
    \o (IF startsWith(path, AdminPrefix) /\ ~admin THEN <<DashboardPath>> ELSE <<>>)

\* the router.push calls of one run of the effect, in order
Redirects(isLoading, user, admin, path) ==
    IF isLoading
      THEN <<>>
      ELSE (IF user = "none" /\ path \notin publicRoutes
              THEN <<LoginPath>>
              ELSE IF user # "none" /\ path \in {LoginPath, LoginPath \o <<"/">>}
                THEN <<DashboardPath>>
                ELSE <<>>)
           \o (IF startsWith(path, AdminPrefix) /\ ~admin
                 THEN <<DashboardPath>>
                 ELSE <<>>)

\* the effect runs: the pushes are issued and the router ends on the last
RouteGuardEffect ==
    /\ redirects' = Redirects(loading, currentUser, isAdmin, pathname)
    /\ pathname' = IF redirects' = <<>> THEN pathname
                                        ELSE redirects'[Len(redirects')]
    /\ UNCHANGED nonRoute

InitGuard ==
    /\ ServiceInit
    /\ \E role \in StoredRoles : AuthInit(role)
    /\ \E path \in Paths : RouteInit(path)
    /\ CacheInit
    /\ PageInit

NextGuard ==
    \/ NextAuth
    \/ RouteGuardEffect

SpecGuard == InitGuard /\ [][NextGuard]_vars

\* React runs the effect after a render that changed its dependencies, the
\* auth service delivers its events and the store answers the listener
GuardRuns ==
    /\ WF_vars(RouteGuardEffect)
    /\ WF_vars(onAuthStateChanged)
    /\ WF_vars(\E fault \in BOOLEAN : listenerGetDoc(fault))
    /\ WF_vars(\E fault \in BOOLEAN : listenerSetDoc(fault))

SpecGuardRuns == SpecGuard /\ GuardRuns

\* ------------------------------------------------------- DashboardCache
\* set(key, data, ttl = DEFAULT_TTL); a negative ttl stands for an omitted one
set(c, key, ttl) ==
    [c EXCEPT ![key] = [present |-> TRUE, timestamp |-> now,
                        ttl |-> IF ttl < 0 THEN DEFAULT_TTL ELSE ttl]]

\* the expiry test of get with >= in place of >
ExpiredEarly(entry) == now - entry.timestamp >= entry.ttl

\* Date.now() - entry.timestamp > entry.ttl
Expired(entry) == now - entry.timestamp > entry.ttl

\* get(key) returns the data of an entry that is present and not expired
Hit(key) == cache[key].present /\ ~Expired(cache[key])

\* time passes
tick ==
    /\ now < MaxTime
    /\ now' = now + 1
    /\ UNCHANGED <<cache, inflight, served, fetchCalls>>
    /\ UNCHANGED nonCache

\* getDashboardData(period) up to its await: dashboardCache.get(cacheKey)
\* returns the cached result, or deletes an expired entry and the queries
\* are started
getDashboardData(period) ==
    /\ fetchCalls < MaxFetchCalls
    /\ fetchCalls' = fetchCalls + 1
    /\ IF Hit(period)
         THEN /\ served' = [period |-> period, source |-> "cache",
                            stamp |-> cache[period].timestamp]
              /\ UNCHANGED <<cache, inflight>>
         ELSE /\ cache' = [cache EXCEPT ![period] = NoEntry]
              /\ inflight' = [inflight EXCEPT ![period] = @ + 1]
              /\ UNCHANGED served
    /\ UNCHANGED now
    /\ UNCHANGED nonCache

\* getDashboardData resumes after Promise.all: the result is cached for two
\* minutes and returned; a failed query rejects the call
getDashboardDataDone(period, fault) ==
    /\ inflight[period] > 0
    /\ inflight' = [inflight EXCEPT ![period] = @ - 1]
    /\ IF fault
         THEN /\ served' = [period |-> period, source |-> "error", stamp |-> now]
              /\ UNCHANGED cache
         ELSE /\ cache' = set(cache, period, DashboardTTL)
              /\ served' = [period |-> period, source |-> "fetch", stamp |-> now]
    /\ UNCHANGED <<now, fetchCalls>>
    /\ UNCHANGED nonCache

\* clearCache(): dashboardCache.clear()
clearCache ==
    /\ cache' = [k \in Periods |-> NoEntry]
    /\ UNCHANGED <<now, inflight, served, fetchCalls>>
    /\ UNCHANGED nonCache

InitCache ==
    /\ ServiceInit
    /\ ClientInit

NextCache ==
    \/ tick
    \/ \E period \in Periods : getDashboardData(period)
    \/ \E period \in Periods, fault \in BOOLEAN : getDashboardDataDone(period, fault)
    \/ clearCache

SpecCache == InitCache /\ [][NextCache]_vars

\* -------------------------------------------------------- DashboardPage
\* TimeRangeSelector onChange: setTimePeriod(period); the effect runs for
\* the new period and starts fetchDashboardData
setTimePeriod(period) ==
    /\ period # timePeriod
    /\ selects < MaxSelects
    /\ selects' = selects + 1
    /\ timePeriod' = period
    /\ fetching' = [fetching EXCEPT ![period] = @ + 1]
    /\ UNCHANGED <<stats, timeSeriesData, queryFailed>>
    /\ UNCHANGED nonPage

\* a fetchDashboardData run started for period has had its queries
\* answered: it sets the stats and the time series it got, and leaves those
\* whose query failed
fetchDashboardData(period, statsOk, timeSeriesOk) ==
    /\ fetching[period] > 0
    /\ fetching' = [fetching EXCEPT ![period] = @ - 1]
    /\ stats' = IF statsOk THEN period ELSE stats
    /\ timeSeriesData' = IF timeSeriesOk THEN period ELSE timeSeriesData
    /\ queryFailed' = (queryFailed \/ ~statsOk \/ ~timeSeriesOk)
    /\ UNCHANGED <<timePeriod, selects>>
    /\ UNCHANGED nonPage

InitPage ==
    /\ ServiceInit
    /\ ClientInit

NextPage ==
    \/ \E period \in Periods : setTimePeriod(period)
    \/ \E period \in Periods, statsOk \in BOOLEAN, timeSeriesOk \in BOOLEAN :
          fetchDashboardData(period, statsOk, timeSeriesOk)

SpecPage == InitPage /\ [][NextPage]_vars

\* ------------------------------------------------- sequential scenario
\* The store holds one activity A (id 1) with no booking; one caller then
\* makes four calls one after the other: createBooking(u1, A, s1),
\* createBooking(u2, A, s2), deleteBooking of u1's booking,
\* createBooking(u2, A, s3), each status being any of the three.  A commit
\* may still fail in the store.
InitScenario ==
    /\ \E limit \in 0..MaxLimit :
          activities = [a \in ActivityIds |->
                          IF a = 1 THEN [exists |-> TRUE, participantLimit |-> limit,
                                         currentParticipants |-> 0]
                                   ELSE NoActivity]
    /\ numActivities = 1
    /\ bookings = [b \in BookingIds |-> NoBooking]
    /\ numBookings = 0
    /\ pc = [p \in Procs |-> "idle"]
    /\ args = [p \in Procs |-> NoArgs]
    /\ result = [op |-> "none", outcome |-> "none"]
    /\ created = [a \in ActivityIds |-> 0]
    /\ deleted = [a \in ActivityIds |-> 0]
    /\ calls = 0
    /\ ClientInit

NextScenario ==
    \/ calls = 0 /\ \E s \in Statuses : createBookingGet(1, "u1", 1, s)
    \/ calls = 1 /\ \E s \in Statuses : createBookingGet(1, "u2", 1, s)
    \/ calls = 2 /\ \E id \in {b \in BookingIds : bookings[b].exists
                                                    /\ bookings[b].userId = "u1"} :
                        deleteBookingGet(1, id)
    \/ calls = 3 /\ \E s \in Statuses : createBookingGet(1, "u2", 1, s)
    \/ createBookingQuery(1)
    \/ \E fault \in BOOLEAN : createBookingCommit(1, fault)
    \/ \E fault \in BOOLEAN : deleteBookingCommit(1, fault)

SpecScenario == InitScenario /\ [][NextScenario]_vars

\* ------------------------------------------------------- two activities
\* The store holds two activities (ids 1 and 2) created with the same
\* participantLimit and no booking; the callers then run the operations of
\* bookingService.
InitTwoActivities ==
    /\ \E limit \in 0..MaxLimit :
          activities = [a \in ActivityIds |->
                          IF a \in {1, 2}
                            THEN [exists |-> TRUE, participantLimit |-> limit,
                                  currentParticipants |-> 0]
                            ELSE NoActivity]
    /\ numActivities = 2
    /\ bookings = [b \in BookingIds |-> NoBooking]
    /\ numBookings = 0
    /\ pc = [p \in Procs |-> "idle"]
    /\ args = [p \in Procs |-> NoArgs]
    /\ result = [op |-> "none", outcome |-> "none"]
    /\ created = [a \in ActivityIds |-> 0]
    /\ deleted = [a \in ActivityIds |-> 0]
    /\ calls = 0
    /\ ClientInit

NextBookings ==
    \/ \E p \in Procs, u \in Users, a \in ActivityInputs, s \in Statuses :
          createBookingGet(p, u, a, s)
    \/ \E p \in Procs : createBookingQuery(p)
    \/ \E p \in Procs, fault \in BOOLEAN : createBookingCommit(p, fault)
    \/ \E id \in BookingIds, data \in BookingData : updateBooking(id, data)
    \/ \E p \in Procs, id \in BookingInputs : deleteBookingGet(p, id)
    \/ \E p \in Procs, fault \in BOOLEAN : deleteBookingCommit(p, fault)
    \/ \E id \in BookingIds, status \in Statuses : changeBookingStatus(id, status)

SpecTwoActivities == InitTwoActivities /\ [][NextBookings]_vars

\* ------------------------------------------------------------ properties
ExistingBookings == {b \in BookingIds : bookings[b].exists}

BookingsOf(a) == {b \in ExistingBookings : bookings[b].activityId = a}

ActiveBookings(u, a) ==
    {b \in BookingsOf(a) : /\ bookings[b].userId = u
                           /\ bookings[b].status \in {"confirmed", "pending"}}

ActiveBookingsOf(a) ==
    {b \in BookingsOf(a) : bookings[b].status \in {"confirmed", "pending"}}

Max(x, y) == IF x >= y THEN x ELSE y

\* a booking document is inserted / removed by the step
Inserted(b) == ~bookings[b].exists /\ bookings'[b].exists
Removed(b) == bookings[b].exists /\ ~bookings'[b].exists

\* the step adds d to the counter of activity a and changes no other activity
CounterStep(a, d) ==
    /\ activities[a].exists
    /\ activities' = [activities EXCEPT ![a].currentParticipants = @ + d]

\* C1: for an activity with participantLimit = N > 0, under every
\* interleaving of concurrent createBooking calls currentParticipants never
\* exceeds N.
C1_CapacityNeverExceeded ==
    \A a \in ActivityIds :
        (activities[a].exists /\ activities[a].participantLimit > 0)
            => activities[a].currentParticipants <= activities[a].participantLimit

\* C2: createBooking is all-or-nothing.  The commit step of a createBooking
\* call either inserts exactly one booking with the call's userId,
\* activityId and status and adds 1 to that activity's counter, or (fault on
\* the increment, activity document gone at commit) fails and leaves every
\* booking and every activity as it was; and no step of the system inserts a
\* booking without the +1, or adds 1 to a counter without inserting a booking.
C2_CreateAllOrNothing ==
    [][/\ \A p \in Procs :
            (pc[p] = "cb_tx" /\ pc'[p] = "idle") =>
              LET a == args[p].activityId IN
              \/ /\ result' = [op |-> "createBooking", outcome |-> "ok"]
                 /\ CounterStep(a, 1)
                 /\ \E b \in BookingIds :
                       /\ Inserted(b)
                       /\ bookings'[b] = [exists |-> TRUE, userId |-> args[p].userId,
                                          activityId |-> a, status |-> args[p].status]
                       /\ \A c \in BookingIds \ {b} : bookings'[c] = bookings[c]
              \/ /\ result' = [op |-> "createBooking", outcome |-> "StoreError"]
                 /\ bookings' = bookings
                 /\ activities' = activities
       /\ (\E b \in BookingIds : Inserted(b))
             <=> (\E a \in ActivityIds : CounterStep(a, 1))
      ]_vars

\* C2 witness: a createBooking transaction failed and no booking document
\* was left behind
C2_Witness ==
    /\ result = [op |-> "createBooking", outcome |-> "StoreError"]
    /\ ExistingBookings = {}
    /\ numBookings = 0

\* C3: in every reachable state each (userId, activityId) pair has at most
\* one booking whose status is confirmed or pending.
C3_AtMostOneActiveBooking ==
    \A u \in Users, a \in ActivityIds : Cardinality(ActiveBookings(u, a)) <= 1

\* C4: a createBooking call for (u, a) whose duplicate query runs while a
\* confirmed or pending booking of (u, a) exists (the first call's booking,
\* neither cancelled nor deleted) fails with the duplicate-booking error and
\* leaves the bookings and every activity's counter as they were.
C4_SecondCreateIsDuplicate ==
    [][\A p \in Procs :
          (/\ pc[p] = "cb_query"
           /\ pc'[p] # pc[p]
           /\ ActiveBookings(args[p].userId, args[p].activityId) # {})
          => /\ pc'[p] = "idle"
             /\ result' = [op |-> "createBooking", outcome |-> "DuplicateBooking"]
             /\ bookings' = bookings
             /\ activities' = activities
      ]_vars

\* C4 witness: after createBooking(u, a, pending) succeeded, a second call
\* failed as a duplicate; one booking, counter 1
C4_Witness ==
    /\ result = [op |-> "createBooking", outcome |-> "DuplicateBooking"]
    /\ numBookings = 1
    /\ bookings[1].exists
    /\ bookings[1].status = "pending"
    /\ activities[bookings[1].activityId].exists
    /\ activities[bookings[1].activityId].currentParticipants = 1

\* C5: for an activity created with currentParticipants = 0, after N
\* successful createBooking calls and M successful deleteBooking calls on it,
\* currentParticipants equals N - M, bounded below by 0.
C5_CounterIsCreatesMinusDeletes ==
    \A a \in ActivityIds :
        activities[a].exists
            => activities[a].currentParticipants = Max(created[a] - deleted[a], 0)

\* C6: for every existing activity created through createActivity,
\* currentParticipants equals the number of existing booking documents that
\* reference it, whatever their status.
C6_CounterTracksExistence ==
    \A a \in ActivityIds :
        activities[a].exists
            => activities[a].currentParticipants = Cardinality(BookingsOf(a))

\* C7: whenever createBooking evaluates the capacity check for an activity,
\* that activity's currentParticipants equals the number of its bookings
\* whose status is confirmed or pending.
C7_CounterIsActiveCountAtCheck ==
    [][\A p \in Procs, a \in ActivityIds :
          (/\ activities[a].exists
           /\ Idle(p)
           /\ calls' = calls + 1
           /\ \E u \in Users, s \in Statuses : createBookingGet(p, u, a, s))
          => activities[a].currentParticipants = Cardinality(ActiveBookingsOf(a))
      ]_vars

\* C8: an activity's currentParticipants is never negative.
C8_CounterNeverNegative ==
    \A a \in ActivityIds :
        activities[a].exists => activities[a].currentParticipants >= 0

\* C9: deleteBooking is all-or-nothing.  The commit step of a deleteBooking
\* call either leaves the booking document deleted and subtracts 1 from the
\* counter of the activity the call read from the booking, or (the decrement
\* cannot be applied) fails and leaves every booking, in particular the one
\* to delete, and every activity as it was; and no step of the system
\* removes a booking document without the -1.
C9_DeleteAllOrNothing ==
    [][/\ \A p \in Procs :
            (pc[p] = "db_tx" /\ pc'[p] = "idle") =>
              LET a == args[p].activityId
                  id == args[p].id IN
              \/ /\ result' = [op |-> "deleteBooking", outcome |-> "ok"]
                 /\ CounterStep(a, -1)
                 /\ ~bookings'[id].exists
                 /\ \A c \in BookingIds \ {id} : bookings'[c] = bookings[c]
              \/ /\ result' = [op |-> "deleteBooking", outcome |-> "StoreError"]
                 /\ bookings' = bookings
                 /\ activities' = activities
       /\ (\E b \in BookingIds : Removed(b))
             => (\E a \in ActivityIds : CounterStep(a, -1))
      ]_vars

\* C9 witness: a deleteBooking transaction failed because its activity
\* document is gone, and the booking document still exists
C9_Witness ==
    /\ result = [op |-> "deleteBooking", outcome |-> "StoreError"]
    /\ \E b \in ExistingBookings : ~activities[bookings[b].activityId].exists

\* C10: createBooking for an activityId whose activity document does not
\* exist fails with the not-found error; no booking document is created and
\* no activity document is created or modified.
C10_CreateOnMissingActivity ==
    [][\A p \in Procs, a \in ActivityIds :
          (/\ ~activities[a].exists
           /\ Idle(p)
           /\ calls' = calls + 1
           /\ \E u \in Users, s \in Statuses : createBookingGet(p, u, a, s))
          => /\ result' = [op |-> "createBooking", outcome |-> "NotFound"]
             /\ pc'[p] = "idle"
             /\ bookings' = bookings
             /\ numBookings' = numBookings
             /\ activities' = activities
             /\ numActivities' = numActivities
      ]_vars

\* C10 witness: a createBooking call failed with not-found while no booking
\* and no activity document exists
C10_Witness ==
    /\ result = [op |-> "createBooking", outcome |-> "NotFound"]
    /\ ExistingBookings = {}
    /\ \A a \in ActivityIds : ~activities[a].exists

\* C11: when createBooking reads an activity with participantLimit > 0 and
\* currentParticipants >= participantLimit it fails with the capacity error
\* and writes nothing.
C11_FullActivityRejects ==
    [][\A p \in Procs, a \in ActivityIds :
          (/\ activities[a].exists
           /\ activities[a].participantLimit > 0
           /\ activities[a].currentParticipants >= activities[a].participantLimit
           /\ Idle(p)
           /\ calls' = calls + 1
           /\ \E u \in Users, s \in Statuses : createBookingGet(p, u, a, s))
          => /\ result' = [op |-> "createBooking", outcome |-> "CapacityExceeded"]
             /\ pc'[p] = "idle"
             /\ bookings' = bookings
             /\ numBookings' = numBookings
             /\ activities' = activities
      ]_vars

\* C11 witness: a createBooking call failed with the capacity error on an
\* activity whose counter has reached its positive limit
C11_Witness ==
    /\ result = [op |-> "createBooking", outcome |-> "CapacityExceeded"]
    /\ \E a \in ActivityIds :
          /\ activities[a].exists
          /\ activities[a].participantLimit > 0
          /\ activities[a].currentParticipants = activities[a].participantLimit
          /\ Cardinality(BookingsOf(a)) = activities[a].currentParticipants

\* C12: deleteBooking(id) for an id with no booking document fails with the
\* not-found error and changes no booking and no activity.
C12_DeleteMissingBooking ==
    [][\A p \in Procs, id \in BookingIds :
          (/\ ~bookings[id].exists
           /\ Idle(p)
           /\ calls' = calls + 1
           /\ deleteBookingGet(p, id))
          => /\ result' = [op |-> "deleteBooking", outcome |-> "NotFound"]
             /\ pc'[p] = "idle"
             /\ bookings' = bookings
             /\ activities' = activities
      ]_vars

\* C12 witness: a deleteBooking call failed with not-found while another
\* booking and its activity's counter are in place
C12_Witness ==
    /\ result = [op |-> "deleteBooking", outcome |-> "NotFound"]
    /\ \E b \in ExistingBookings :
          /\ activities[bookings[b].activityId].exists
          /\ activities[bookings[b].activityId].currentParticipants = 1

\* C13: for an activity with participantLimit = 0 createBooking never fails
\* with the capacity error, whatever currentParticipants is: the capacity
\* check lets the call through to the duplicate query, and the later steps
\* of a call never end with the capacity error.
C13_UnlimitedNeverFull ==
    [][/\ \A p \in Procs, a \in ActivityIds :
            (/\ activities[a].exists
             /\ activities[a].participantLimit = 0
             /\ Idle(p)
             /\ calls' = calls + 1
             /\ \E u \in Users, s \in Statuses : createBookingGet(p, u, a, s))
            => /\ pc'[p] = "cb_query"
               /\ args'[p].activityId = a
               /\ result' = result
       /\ \A p \in Procs :
            (pc[p] \in {"cb_query", "cb_tx"} /\ pc'[p] = "idle")
            => result'.outcome # "CapacityExceeded"
      ]_vars

\* C13 witness: an unlimited activity took a second booking when its counter
\* was already 1
C13_Witness ==
    \E a \in ActivityIds :
        /\ activities[a].exists
        /\ activities[a].participantLimit = 0
        /\ activities[a].currentParticipants = 2
        /\ created[a] = 2

\* C14: changeBookingStatus(id, s) changes only the status of booking id:
\* every activity, the booking's userId and activityId and all other bookings
\* are unchanged, for every transition among the three statuses.
C14_StatusChangeFrame ==
    [][\A id \in BookingIds, st \in Statuses :
          (/\ bookings[id].exists
           /\ calls' = calls + 1
           /\ changeBookingStatus(id, st))
          => /\ activities' = activities
             /\ bookings'[id].exists
             /\ bookings'[id].status = st
             /\ bookings'[id].userId = bookings[id].userId
             /\ bookings'[id].activityId = bookings[id].activityId
             /\ \A c \in BookingIds \ {id} : bookings'[c] = bookings[c]
             /\ numBookings' = numBookings
      ]_vars

\* C14 witness: a booking is cancelled while its activity still counts it
C14_Witness ==
    \E b \in ExistingBookings :
        /\ bookings[b].status = "cancelled"
        /\ activities[bookings[b].activityId].exists
        /\ activities[bookings[b].activityId].currentParticipants = 1
        /\ calls >= 3

\* the counter of activity a has reached its positive limit
Full(a) ==
    /\ activities[a].exists
    /\ activities[a].participantLimit > 0
    /\ activities[a].currentParticipants >= activities[a].participantLimit

\* C15: a cancelled booking still occupies capacity until deleted.  While an
\* existing activity with participantLimit = N > 0 has currentParticipants
\* >= N and holds a cancelled booking, createBooking for a user with no
\* booking on it fails with the capacity error and writes nothing; and a full
\* activity stays full in every step except a deleteBooking on it that
\* succeeds (or the deletion of the activity document itself).
C15_CancelledHoldsSlot ==
    [][/\ \A p \in Procs, a \in ActivityIds, u \in Users :
            (/\ Full(a)
             /\ \E b \in BookingsOf(a) : bookings[b].status = "cancelled"
             /\ \A b \in BookingsOf(a) : bookings[b].userId # u
             /\ Idle(p)
             /\ calls' = calls + 1
             /\ \E s \in Statuses : createBookingGet(p, u, a, s))
            => /\ result' = [op |-> "createBooking", outcome |-> "CapacityExceeded"]
               /\ pc'[p] = "idle"
               /\ bookings' = bookings
               /\ activities' = activities
       /\ \A a \in ActivityIds :
            (Full(a) /\ activities'[a].exists)
            => \/ /\ activities'[a].participantLimit = activities[a].participantLimit
                  /\ activities'[a].currentParticipants
                        >= activities'[a].participantLimit
               \/ /\ deleted'[a] = deleted[a] + 1
                  /\ result' = [op |-> "deleteBooking", outcome |-> "ok"]
      ]_vars

\* C15 witness: after four calls a full activity holds one booking, which is
\* cancelled, and the last call to finish failed with the capacity error
C15_Witness ==
    /\ result = [op |-> "createBooking", outcome |-> "CapacityExceeded"]
    /\ calls = 4
    /\ \E a \in ActivityIds :
          /\ Full(a)
          /\ created[a] = 1
          /\ deleted[a] = 0
          /\ \E b \in BookingsOf(a) : bookings[b].status = "cancelled"

\* C16: in the sequential scenario on an activity with participantLimit 1 and
\* no booking, as long as the store fails no commit (the last call did not
\* end in a store error and the earlier ones left their writes): the first createBooking
\* (u1) succeeds and the counter is 1; the second (u2) fails with the capacity
\* error and writes nothing; deleteBooking of u1's booking succeeds and the
\* counter is 0; the repeated createBooking (u2) then succeeds and the counter
\* is 1 again, u2's booking being the only one.
C16_SlotFreedByDelete ==
    (/\ activities[1].exists
     /\ activities[1].participantLimit = 1
     /\ pc[1] = "idle"
     /\ result.outcome # "StoreError")
    => /\ (calls = 1) =>
            /\ result = [op |-> "createBooking", outcome |-> "ok"]
            /\ activities[1].currentParticipants = 1
            /\ \E b \in BookingIds : bookings[b].exists /\ bookings[b].userId = "u1"
       /\ (calls = 2 /\ \E b \in ExistingBookings : bookings[b].userId = "u1") =>
            /\ result = [op |-> "createBooking", outcome |-> "CapacityExceeded"]
            /\ activities[1].currentParticipants = 1
            /\ numBookings = 1
            /\ \A b \in ExistingBookings : bookings[b].userId = "u1"
       /\ (calls = 3 /\ created[1] = 1) =>
            /\ result = [op |-> "deleteBooking", outcome |-> "ok"]
            /\ activities[1].currentParticipants = 0
            /\ ExistingBookings = {}
       /\ (calls = 4 /\ created[1] >= 1 /\ deleted[1] = 1) =>
            /\ result = [op |-> "createBooking", outcome |-> "ok"]
            /\ activities[1].currentParticipants = 1
            /\ created[1] = 2
            /\ Cardinality(ExistingBookings) = 1
            /\ \A b \in ExistingBookings : bookings[b].userId = "u2"

C16_Witness ==
    /\ calls = 4
    /\ pc[1] = "idle"
    /\ activities[1].participantLimit = 1
    /\ activities[1].currentParticipants = 1
    /\ created[1] = 2
    /\ deleted[1] = 1
    /\ result = [op |-> "createBooking", outcome |-> "ok"]
    /\ ~bookings[1].exists
    /\ bookings[2].exists
    /\ bookings[2].userId = "u2"
    /\ bookings[2].status = "pending"

\* C17: the currentParticipants field of an activity that exists is changed
\* only by the transaction of a createBooking (by +1) or of a deleteBooking
\* (by -1) on that activity; a step of updateActivity (called with the expiry
\* update), toggleActivityStatus, updateBooking or changeBookingStatus leaves
\* the currentParticipants of every activity unchanged.
C17_CounterWrittenByTransactionsOnly ==
    [][/\ \A a \in ActivityIds :
            (/\ activities[a].exists
             /\ activities'[a].exists
             /\ activities'[a].currentParticipants # activities[a].currentParticipants)
            => \/ /\ created'[a] = created[a] + 1
                  /\ result' = [op |-> "createBooking", outcome |-> "ok"]
                  /\ activities'[a].currentParticipants
                        = activities[a].currentParticipants + 1
               \/ /\ deleted'[a] = deleted[a] + 1
                  /\ result' = [op |-> "deleteBooking", outcome |-> "ok"]
                  /\ activities'[a].currentParticipants
                        = activities[a].currentParticipants - 1
       /\ (/\ pc' = pc
           /\ calls' = calls + 1
           /\ \/ \E a \in ActivityIds, data \in ActivityData : updateActivity(a, data)
              \/ \E a \in ActivityIds, isActive \in BOOLEAN :
                    toggleActivityStatus(a, isActive)
              \/ \E id \in BookingIds, data \in BookingData : updateBooking(id, data)
              \/ \E id \in BookingIds, status \in Statuses :
                    changeBookingStatus(id, status))
          => \A a \in ActivityIds :
                activities'[a].currentParticipants = activities[a].currentParticipants
      ]_vars

\* a booking made on activity 1 has been moved to activity 2 by updateBooking
\* and the counter of activity 1 still stands at 1
C17_Witness ==
    /\ calls = 4
    /\ numActivities = 2
    /\ activities[1].exists
    /\ activities[1].currentParticipants = 1
    /\ activities[2].exists
    /\ activities[2].currentParticipants = 0
    /\ created[1] = 1
    /\ numBookings = 1
    /\ bookings[1].exists
    /\ bookings[1].activityId = 2

\* C18: a write of a createBooking or deleteBooking call that concerns
\* activity A (the activity id the call holds), or of a changeBookingStatus
\* on a booking of A, leaves the document of every other activity B and the
\* set and contents of the bookings that reference B unchanged.
C18_ActivitiesIndependent ==
    [][\A A \in ActivityIds :
          (\/ \E p \in Procs :
                /\ pc[p] \in {"cb_tx", "db_tx"}
                /\ args[p].activityId = A
                /\ pc'[p] = "idle"
           \/ /\ pc' = pc
              /\ \E id \in BookingIds, status \in Statuses :
                    bookings[id].activityId = A /\ changeBookingStatus(id, status))
          => \A B \in ActivityIds \ {A} :
                /\ activities'[B] = activities[B]
                /\ \A b \in BookingIds :
                      (\/ bookings[b].exists /\ bookings[b].activityId = B
                       \/ bookings'[b].exists /\ bookings'[b].activityId = B)
                      => bookings'[b] = bookings[b]
      ]_vars

\* C19: for each of the three statuses, a createBooking call that succeeds
\* adds exactly 1 to the currentParticipants of its activity and inserts
\* exactly one booking, which carries the call's userId, activityId and
\* status; so a booking created as cancelled on an activity one short of its
\* limit fills the activity.
C19_EverySuccessfulCreateCounts ==
    [][\A p \in Procs, s \in Statuses :
          (/\ pc[p] = "cb_tx"
           /\ args[p].status = s
           /\ pc'[p] = "idle"
           /\ result' = [op |-> "createBooking", outcome |-> "ok"])
          => LET a == args[p].activityId IN
             /\ activities'[a].currentParticipants
                   = activities[a].currentParticipants + 1
             /\ Cardinality({b \in BookingIds : bookings'[b].exists})
                   = Cardinality(ExistingBookings) + 1
             /\ \E b \in BookingIds :
                   /\ Inserted(b)
                   /\ bookings'[b].userId = args[p].userId
                   /\ bookings'[b].activityId = a
                   /\ bookings'[b].status = s
             /\ (/\ s = "cancelled"
                 /\ activities[a].participantLimit > 0
                 /\ activities[a].currentParticipants + 1
                       = activities[a].participantLimit)
                => LimitReached(activities'[a])
      ]_vars

\* a booking created as cancelled has filled an activity with limit 1
C19_Witness ==
    /\ calls = 2
    /\ result = [op |-> "createBooking", outcome |-> "ok"]
    /\ activities[1].exists
    /\ activities[1].participantLimit = 1
    /\ activities[1].currentParticipants = 1
    /\ bookings[1].exists
    /\ bookings[1].status = "cancelled"
    /\ bookings[1].activityId = 1

\* C20: createBooking checks that the activity exists, then the capacity,
\* then the duplicate.  Called for a user who has a confirmed or pending
\* booking on a full activity it ends with the capacity error, and called on
\* an activity that does not exist it ends with the not-found error; in both
\* cases it ends at its first read, before the bookings query.
C20_CheckOrder ==
    [][\A p \in Procs, u \in Users, a \in ActivityIds :
          (/\ Idle(p)
           /\ calls' = calls + 1
           /\ \/ ~activities[a].exists
              \/ LimitReached(activities[a]) /\ ActiveBookings(u, a) # {}
           /\ \E s \in Statuses : createBookingGet(p, u, a, s))
          => /\ pc'[p] = "idle"
             /\ result' = [op |-> "createBooking",
                           outcome |-> IF ~activities[a].exists
                                         THEN "NotFound"
                                         ELSE "CapacityExceeded"]
      ]_vars

\* both users hold an active booking on a full activity and the last call,
\* a createBooking, ended with the capacity error
C20_Witness ==
    /\ calls = 4
    /\ \A p \in Procs : pc[p] = "idle"
    /\ result = [op |-> "createBooking", outcome |-> "CapacityExceeded"]
    /\ activities[1].exists
    /\ numActivities = 1
    /\ LimitReached(activities[1])
    /\ \A u \in Users : ActiveBookings(u, 1) # {}

\* C21: the duplicate check counts confirmed and pending bookings only.  A
\* createBooking call for (u, a) whose query runs while u's bookings on a
\* are all cancelled passes the check and goes on to its transaction; unless
\* the store fails it, the transaction inserts the new booking, and it
\* leaves every earlier booking, the cancelled ones included, as it was.
C21_CancelledBookingsDoNotBlock ==
    [][\A p \in Procs :
          LET u == args[p].userId
              a == args[p].activityId
          IN /\ (/\ pc[p] = "cb_query"
                 /\ pc'[p] # pc[p]
                 /\ \E b \in BookingsOf(a) : bookings[b].userId = u
                 /\ \A b \in BookingsOf(a) :
                       bookings[b].userId = u => bookings[b].status = "cancelled")
                => /\ pc'[p] = "cb_tx"
                   /\ bookings' = bookings
                   /\ activities' = activities
             /\ (pc[p] = "cb_tx" /\ pc'[p] = "idle")
                => /\ \A b \in ExistingBookings : bookings'[b] = bookings[b]
                   /\ result'.outcome # "StoreError"
                        => /\ result' = [op |-> "createBooking", outcome |-> "ok"]
                           /\ \E b \in BookingIds :
                                 /\ Inserted(b)
                                 /\ bookings'[b].userId = u
                                 /\ bookings'[b].activityId = a
      ]_vars

\* u1 booked activity 1 as cancelled and then again as pending: both
\* bookings are in the store
C21_Witness ==
    /\ calls = 3
    /\ \A p \in Procs : pc[p] = "idle"
    /\ result = [op |-> "createBooking", outcome |-> "ok"]
    /\ created[1] = 2
    /\ bookings[1] = [exists |-> TRUE, userId |-> "u1", activityId |-> 1,
                      status |-> "cancelled"]
    /\ bookings[2] = [exists |-> TRUE, userId |-> "u1", activityId |-> 1,
                      status |-> "pending"]

\* C22: the increment of a booking is reversed at most once.  A deleteBooking
\* call succeeds only by removing the booking it was called for, so of the
\* calls made for one booking at most one succeeds; and every step that
\* lowers the currentParticipants of an activity removes a booking.
C22_DecrementAtMostOnce ==
    [][/\ \A p \in Procs :
            (/\ pc[p] = "db_tx"
             /\ pc'[p] = "idle"
             /\ result' = [op |-> "deleteBooking", outcome |-> "ok"])
            => Removed(args[p].id)
       /\ \A a \in ActivityIds :
            (/\ activities[a].exists
             /\ activities'[a].exists
             /\ activities'[a].currentParticipants < activities[a].currentParticipants)
            => \E b \in BookingIds : Removed(b)
      ]_vars

\* the outcomes a createBooking or deleteBooking call ends with
Outcomes == {"ok", "NotFound", "CapacityExceeded", "DuplicateBooking", "StoreError"}

\* C23: once the store answers its requests every running createBooking or
\* deleteBooking call ends (a behaviour starts finitely many calls, so this
\* is: from some point on no call is running); a call ends with exactly one
\* of the outcomes
\* ok, not found, capacity exceeded, duplicate booking, store error; and a
\* call only moves forward through its requests (lookup, query, transaction)
\* without the service starting a call of its own: a step that resumes a
\* running call starts none.
C23_CallsTerminateOnce ==
    /\ <>[](\A p \in Procs : pc[p] = "idle")
    /\ [][\A p \in Procs :
            /\ (pc[p] # "idle" /\ pc'[p] # pc[p])
                 => /\ calls' = calls
                    /\ \/ pc[p] = "cb_query" /\ pc'[p] = "cb_tx" /\ result' = result
                       \/ /\ pc'[p] = "idle"
                          /\ result'.outcome \in Outcomes
                          /\ result'.op = IF pc[p] = "db_tx" THEN "deleteBooking"
                                                             ELSE "createBooking"
            /\ (pc[p] = "idle" /\ pc'[p] # "idle")
                 => calls' = calls + 1 /\ result' = result
         ]_vars

\* both callers have had a call end, the last one with a store failure
C23_Witness ==
    /\ calls = 4
    /\ \A p \in Procs : pc[p] = "idle"
    /\ result = [op |-> "deleteBooking", outcome |-> "StoreError"]
    /\ created[1] = 1

\* C24: deleteActivity does not cascade.  The step that deletes an activity
\* document leaves every booking as it was; a deleteBooking called afterwards
\* for a booking of the deleted activity passes its lookup, and its
\* transaction, whose activity update has no target, fails and leaves the
\* bookings as they were.
C24_DeleteActivityLeavesBookings ==
    [][/\ \A a \in ActivityIds :
            (activities[a].exists /\ ~activities'[a].exists) => bookings' = bookings
       /\ \A p \in Procs :
            (/\ pc[p] = "db_tx"
             /\ pc'[p] = "idle"
             /\ ~activities[args[p].activityId].exists)
            => /\ result' = [op |-> "deleteBooking", outcome |-> "StoreError"]
               /\ bookings' = bookings
               /\ activities' = activities
       /\ \A p \in Procs, id \in BookingIds :
            (/\ bookings[id].exists
             /\ ~activities[bookings[id].activityId].exists
             /\ Idle(p)
             /\ calls' = calls + 1
             /\ deleteBookingGet(p, id))
            => /\ pc'[p] = "db_tx"
               /\ args'[p].activityId = bookings[id].activityId
      ]_vars

\* the activity of booking 1 was deleted; a deleteBooking of booking 1 then
\* failed and the booking is still there
C24_Witness ==
    /\ result = [op |-> "deleteBooking", outcome |-> "StoreError"]
    /\ \A p \in Procs : pc[p] = "idle"
    /\ numActivities = 1
    /\ ~activities[1].exists
    /\ created[1] = 1
    /\ bookings[1].exists
    /\ bookings[1].activityId = 1

\* C25: a login of a user whose stored role is not admin never leaves the
\* user authenticated: when login() has ended with the access-denied error
\* and every listener callback has finished, currentUser and userData are
\* null.
C25_DeniedLoginLeavesNobody ==
    (/\ loginPc = "denied"
     /\ authEvents = <<>>
     /\ listenerGet = 0
     /\ listenerSet = 0)
    => (currentUser = "none" /\ userData = "none")

\* C26: the redirect rules of RouteGuard.  A run of the effect while loading
\* is true issues no redirect; with loading false, for a visitor with no
\* currentUser on a path outside the public routes it issues the redirect
\* to /login first, for a signed-in user on /login or /login/ it issues the
\* redirect to /dashboard, and for no currentUser on a public route it
\* issues none.
C26_RedirectRules ==
    [][RouteGuardEffect =>
          /\ loading => (redirects' = <<>> /\ pathname' = pathname)
          /\ (~loading /\ currentUser = "none" /\ pathname \notin publicRoutes)
                => (redirects' # <<>> /\ Head(redirects') = LoginPath)
          /\ (~loading /\ currentUser # "none"
                /\ pathname \in {LoginPath, LoginPath \o <<"/">>})
                => (redirects' = <<DashboardPath>> /\ pathname' = DashboardPath)
          /\ (~loading /\ currentUser = "none" /\ pathname \in publicRoutes)
                => (redirects' = <<>> /\ pathname' = pathname)
      ]_vars

\* an administrator who signed in on the login page has been sent to the
\* dashboard
C26_Witness ==
    /\ redirects = <<DashboardPath>>
    /\ pathname = DashboardPath
    /\ currentUser = "user"
    /\ userData = "admin"
    /\ loginPc = "done"
    /\ ~loading

\* a visitor who stays unauthenticated: from some point on there is no
\* currentUser and loading is false
StaysVisitor == <>[](currentUser = "none" /\ ~loading)

\* C27 as stated: from any path an unauthenticated visitor eventually rests
\* on /login with no further redirect; so wherever the guard leaves an
\* unauthenticated visitor (it would issue no redirect there) is /login.
C27_VisitorRestsOnLogin ==
    (/\ currentUser = "none"
     /\ ~loading
     /\ Redirects(loading, currentUser, isAdmin, pathname) = <<>>)
    => pathname = LoginPath

\* C27: an unauthenticated visitor eventually rests on a public route, with
\* no further redirect: the route the visitor opened when that was public,
\* and /login otherwise; on a path under /admin the guard sends the visitor
\* to /dashboard first and from there to /login.
C27_VisitorRestsOnPublicRoute ==
    /\ StaysVisitor => <>[](pathname \in publicRoutes /\ redirects = <<>>)
    /\ (currentUser = "none" /\ ~loading /\ pathname \notin publicRoutes)
          ~> (pathname = LoginPath \/ currentUser # "none" \/ loading)
    /\ [][(RouteGuardEffect /\ currentUser = "none" /\ ~loading)
            => /\ pathname \in publicRoutes => pathname' = pathname
               /\ pathname \notin publicRoutes
                    => pathname' = IF startsWith(pathname, AdminPrefix)
                                     THEN DashboardPath ELSE LoginPath
         ]_vars

\* a visitor on a path under /admin got both redirects and is on /dashboard
C27_Witness ==
    /\ currentUser = "none"
    /\ ~loading
    /\ logins = 0
    /\ redirects = <<LoginPath, DashboardPath>>
    /\ pathname = DashboardPath

C29_ShowsSelectedPeriod ==
    (/\ \A k \in Periods : fetching[k] = 0
     /\ ~queryFailed)
    => (stats = timePeriod /\ timeSeriesData = timePeriod)

====
